---- MODULE Spec2Model ----
(***************************************************************************)
(* Model of DiffWithRevisionFromCommand.execute                            *)
(* (src/src/commands/diffWithRevisionFrom.ts).                             *)
(*                                                                         *)
(* One behaviour is one invocation of execute.  Every await of the method  *)
(* is a program position (pc); the collaborators that answer the awaits    *)
(* (GitUri.fromUri, the pickers, getStash, getDiffStatus, executeCommand)  *)
(* answer nondeterministically within their declared result types, or      *)
(* reject.  Strings are TLA+ strings; an optional value (T | undefined) is *)
(* the empty set or a singleton.                                           *)
(***************************************************************************)
EXTENDS Integers, Sequences, FiniteSets, TLC

VARIABLES
    pc,           \* position of the invocation inside execute
    uri,          \* parameter uri (reassigned at line 30)
    editor,       \* parameter editor
    args,         \* parameter args (copied and completed at lines 40-43)
    gitUri,       \* const gitUri (line 33)
    path,         \* const path (line 45)
    stash,        \* the stash listing handed to the stash picker (line 52)
    offered,      \* indexes of the stash entries the picker's filter lets through
    pick,         \* const pick (lines 51, 67)
    ref,          \* let ref (line 47)
    sha,          \* let sha (line 48)
    files,        \* const files (line 87)
    renamedUri,   \* let renamedUri (line 83)
    renamedTitle, \* let renamedTitle (line 84)
    calls,        \* every call execute made to a collaborator, in order
    completed,    \* the awaited calls that have returned a value, in order
    thrown        \* the collaborator whose rejection left execute, if any

vars == <<pc, uri, editor, args, gitUri, path, stash, offered, pick, ref, sha,
          files, renamedUri, renamedTitle, calls, completed, thrown>>

-----------------------------------------------------------------------------
(* Optional values *)

None == {}

Some(x) == {x}

Get(o) == CHOOSE x \in o : TRUE

\* a ?? b
OrElse(o, d) == IF o # None THEN Get(o) ELSE d

-----------------------------------------------------------------------------
(* Bounds of the explored inputs *)

\* longest rename-status list getDiffStatus answers with
MaxFiles == 2

\* longest stash listing getStash answers with
MaxStashes == 1

\* longest file-change list of one stash entry
MaxStashFiles == 1

-----------------------------------------------------------------------------
(* String helpers *)

StartsWith(s, p) == Len(s) >= Len(p) /\ SubSeq(s, 1, Len(p)) = p

EndsWith(s, p) == Len(s) >= Len(p) /\ SubSeq(s, Len(s) - Len(p) + 1, Len(s)) = p

RECURSIVE Repeat(_, _)
Repeat(c, n) == IF n = 0 THEN "" ELSE c \o Repeat(c, n - 1)

RECURSIVE LastSlash(_, _)
LastSlash(s, i) ==
    IF i = 0 THEN 0
    ELSE IF SubSeq(s, i, i) = "/" THEN i
    ELSE LastSlash(s, i - 1)

\* basename of '../system/path': the last segment of a path
basename(p) == SubSeq(p, LastSlash(p, Len(p)) + 1, Len(p))

\* pad of '../system/string': s between `before` and `after` spaces
pad(s, before, after) == Repeat(" ", before) \o s \o Repeat(" ", after)

\* GlyphChars.Dot is the one-character bullet U+2022; "*" stands for it
GlyphCharsDot == "*"

\* the one-character ellipsis U+2026 a truncated name ends with; "~" stands for it
GlyphCharsEllipsis == "~"

\* quickPickTitleMaxChars of '../constants': the longest title a picker shows
quickPickTitleMaxChars == 80

\* length a sha is abbreviated to by shortenRevision
abbreviatedShaLength == 7

ShaLength == 40

HexChars == {"0", "1", "2", "3", "4", "5", "6", "7", "8", "9",
             "a", "b", "c", "d", "e", "f"}

isShaLike(rev) ==
    /\ Len(rev) = ShaLength
    /\ \A i \in 1..Len(rev) : SubSeq(rev, i, i) \in HexChars

\* shortenRevision of '../git/utils/revision.utils': the first characters of a
\* sha, the literal name of a symbolic reference
shortenRevision(rev) ==
    IF isShaLike(rev) THEN SubSeq(rev, 1, abbreviatedShaLength) ELSE rev

-----------------------------------------------------------------------------
(* The world the invocation runs in *)

\* roots of the repositories GitUri.fromUri can find
Repositories == {"/repo", "/work"}

\* file-name lengths around the two truncation widths of the picker titles
LongNameLengths == {43, 44, 45, 51, 52, 53, 64}

LongName(n) == Repeat("x", n - 3) \o ".ts"

\* file locations execute can be invoked on
Uris ==
    {"/repo/a.ts", "/work/old/b.ts", "/tmp/a.ts"}
        \cup {"/repo/" \o LongName(n) : n \in LongNameLengths}

\* repository-relative paths a file status can name
Paths == {"a.ts", "old/b.ts"}

\* GitFile: a path and, for a rename or copy, the path it came from
GitFiles == [path : Paths, originalPath : {None} \cup {Some(p) : p \in Paths}]

SeqsUpTo(S, n) == UNION {[1..k -> S] : k \in 0..n}

\* results of getDiffStatus: GitFile[] | undefined
DiffStatusResults == {None} \cup {Some(fs) : fs \in SeqsUpTo(GitFiles, MaxFiles)}

\* refs of the stash commits, by position in the listing
StashRefs == <<"1f0e9d8c7b6a5f4e3d2c1b0a9f8e7d6c5b4a3f2e",
               "2a4c6e8f0b1d3f5a7c9e1b3d5f7a9c0e2f4b6d8a",
               "3b5d7f9a1c3e5a7b9d1f3a5c7e9b0d2f4a6c8e0b">>

\* file-change lists of a stash entry: GitFile[] | undefined
StashFileLists == {None} \cup {Some(fs) : fs \in SeqsUpTo(GitFiles, MaxStashFiles)}

\* results of getStash: the stash entries in listing order, or undefined
StashListings ==
    {None} \cup
    UNION { {Some([i \in 1..k |-> [ref |-> StashRefs[i], files |-> fl[i]]]) :
                fl \in [1..k -> StashFileLists]} : k \in 0..MaxStashes }

\* what the reference picker can answer with: a branch (local or remote), a tag,
\* or a typed revision
ReferencePicks ==
    { [refType |-> "branch", ref |-> "feature", remote |-> FALSE],
      [refType |-> "branch", ref |-> "origin/main", remote |-> TRUE],
      [refType |-> "branch", ref |-> "origin/feature", remote |-> TRUE],
      [refType |-> "tag", ref |-> "v1.0", remote |-> FALSE],
      [refType |-> "revision", ref |-> "4b825dc642cb6eb9a060e54bf8d69288fbee4904",
       remote |-> FALSE] }

Editors == {None, Some([uri |-> "/repo/a.ts", line |-> 3])}

ArgsValues ==
    {None} \cup
    {Some(a) : a \in [line : {None, Some(7)},
                      showOptions : {None, Some("preview")},
                      stash : {None, Some(TRUE), Some(FALSE)}]}

-----------------------------------------------------------------------------
(* Collaborators of '../git/gitUri', '../container' and './commandBase.utils' *)

\* getCommandUri(uri, editor): the explicit location, else the active editor's
getCommandUri(u, e) == IF u # None THEN u ELSE IF e # None THEN Some(Get(e).uri) ELSE None

\* the repository root owning a file location, if any
RepoPathOf(fsPath) == {r \in Repositories : StartsWith(fsPath, r \o "/")}

\* GitUri.fromUri(uri)
GitUriFromUri(u) == [fsPath |-> u, repoPath |-> RepoPathOf(u)]

\* container.git.getRelativePath(gitUri, repoPath)
getRelativePath(g, repoPath) == SubSeq(g.fsPath, Len(repoPath) + 2, Len(g.fsPath))

\* container.git.getAbsoluteUri(path, repoPath)
getAbsoluteUri(p, repoPath) == repoPath \o "/" \o p

\* gitUri.getFormattedFileName({ truncateTo }): the file's base name, cut to
\* truncateTo characters (the last one an ellipsis) when it is longer
getFormattedFileName(g, truncateTo) ==
    LET file == basename(g.fsPath)
    IN  IF Len(file) > truncateTo
        THEN SubSeq(file, 1, truncateTo - 1) \o GlyphCharsEllipsis
        ELSE file

\* isBranchReference of '../git/utils/reference.utils'
isBranchReference(p) == p.refType = "branch"

-----------------------------------------------------------------------------
(* DiffWithRevisionFromCommand.execute: the expressions of the method *)

\* args = { ...args }; if (args.line == null) args.line = editor?.selection.active.line ?? 0
NormalizeArgs(a, e) ==
    LET copy == OrElse(a, [line |-> None, showOptions |-> None, stash |-> None])
    IN  [copy EXCEPT !.line =
            IF copy.line # None THEN copy.line
            ELSE Some(IF e # None THEN Get(e).line ELSE 0)]

\* if (args?.stash)
StashMode(a) == a.stash = Some(TRUE)

StashTitle == "Open Changes with Stash" \o pad(GlyphCharsDot, 2, 2)

ReferenceTitle == "Open Changes with Branch or Tag" \o pad(GlyphCharsDot, 2, 2)

\* mutant of PickerTitle: the prefix length is not taken off the truncation width
PickerTitle_FullWidth(title, g) ==
    title \o getFormattedFileName(g, quickPickTitleMaxChars)

\* `${title}${gitUri.getFormattedFileName({ truncateTo: quickPickTitleMaxChars - title.length })}`
PickerTitle(title, g) ==
    title \o getFormattedFileName(g, quickPickTitleMaxChars - Len(title))

\* mutant of StashFilter: an entry without a file list is rejected (?? false)
StashFilter_Strict(c, p) ==
    IF c.files = None THEN FALSE
    ELSE LET fs == Get(c.files)
         IN  \E i \in 1..Len(fs) : fs[i].path = p \/ fs[i].originalPath = Some(p)

\* filter: c => c.files?.some(f => f.path === path || f.originalPath === path) ?? true
StashFilter(c, p) ==
    IF c.files = None THEN TRUE
    ELSE LET fs == Get(c.files)
         IN  \E i \in 1..Len(fs) : fs[i].path = p \/ fs[i].originalPath = Some(p)

\* mutant of ResolveSha: a remote branch is not given its remotes/ prefix
ResolveSha_Unprefixed(pk, r) == r

\* sha = isBranchReference(pick) && pick.remote ? `remotes/${ref}` : ref
ResolveSha(pk, r) ==
    IF isBranchReference(pk) /\ pk.remote THEN "remotes/" \o r ELSE r

\* getDiffStatus('HEAD', ref, { filters: ['R', 'C'] }) on the file's repository
DiffStatusQuery(g, r) ==
    [fn |-> "getDiffStatus", repoPath |-> Get(g.repoPath),
     ref1 |-> "HEAD", ref2 |-> r, filters |-> <<"R", "C">>]

\* mutant of FindRename: the first match that carries an original path
FindRename_FirstRenamed(fs, p) ==
    LET matches == {i \in 1..Len(fs) : fs[i].path = p /\ fs[i].originalPath # None}
    IN  IF matches = {} THEN None
        ELSE Some(fs[CHOOSE i \in matches : \A j \in matches : i <= j])

\* files.find(s => s.path === path): the first match in list order, if any
FindRename(fs, p) ==
    LET matches == {i \in 1..Len(fs) : fs[i].path = p}
    IN  IF matches = {} THEN None
        ELSE Some(fs[CHOOSE i \in matches : \A j \in matches : i <= j])

\* rename?.originalPath of the scan, undefined when files is absent
RenamedFrom(fl, p) ==
    IF fl = None THEN None
    ELSE LET rename == FindRename(Get(fl), p)
         IN  IF rename = None THEN None ELSE Get(rename).originalPath

\* renamedUri after lines 90-96
RenamedUri(fl, p, g) ==
    LET orig == RenamedFrom(fl, p)
    IN  IF orig = None THEN None
        ELSE Some(getAbsoluteUri(Get(orig), Get(g.repoPath)))

\* renamedTitle after lines 90-96
RenamedTitle(fl, p, r) ==
    LET orig == RenamedFrom(fl, p)
    IN  IF orig = None THEN None
        ELSE Some(basename(Get(orig)) \o " (" \o shortenRevision(r) \o ")")

\* mutant of DiffWithArgs: the left side ignores the rename
DiffWithArgs_LhsCurrent(g, s, r, rUri, rTitle, a) ==
    [repoPath |-> Get(g.repoPath),
     lhs |-> [sha |-> s,
              uri |-> g.fsPath,
              title |-> basename(g.fsPath) \o " (" \o shortenRevision(r) \o ")"],
     rhs |-> [sha |-> "", uri |-> g.fsPath],
     line |-> Get(a.line),
     showOptions |-> a.showOptions]

\* mutant of DiffWithArgs: the right side follows the rename like the left side
DiffWithArgs_RhsRenamed(g, s, r, rUri, rTitle, a) ==
    [repoPath |-> Get(g.repoPath),
     lhs |-> [sha |-> s,
              uri |-> OrElse(rUri, g.fsPath),
              title |-> OrElse(rTitle,
                               basename(g.fsPath) \o " (" \o shortenRevision(r) \o ")")],
     rhs |-> [sha |-> "", uri |-> OrElse(rUri, g.fsPath)],
     line |-> Get(a.line),
     showOptions |-> a.showOptions]

\* the DiffWithCommandArgs handed to 'gitlens.diffWith'; a location is its fsPath
DiffWithArgs(g, s, r, rUri, rTitle, a) ==
    [repoPath |-> Get(g.repoPath),
     lhs |-> [sha |-> s,
              uri |-> OrElse(rUri, g.fsPath),
              title |-> OrElse(rTitle,
                               basename(g.fsPath) \o " (" \o shortenRevision(r) \o ")")],
     rhs |-> [sha |-> "", uri |-> g.fsPath],
     line |-> Get(a.line),
     showOptions |-> a.showOptions]

-----------------------------------------------------------------------------
(* The invocation *)

Init ==
    /\ pc = "start"
    /\ uri \in {None} \cup {Some(u) : u \in Uris}
    /\ editor \in Editors
    /\ args \in ArgsValues
    /\ gitUri = None
    /\ path = None
    /\ stash = None
    /\ offered = {}
    /\ pick = None
    /\ ref = None
    /\ sha = None
    /\ files = None
    /\ renamedUri = None
    /\ renamedTitle = None
    /\ calls = <<>>
    /\ completed = <<>>
    /\ thrown = None

\* lines 30-31: no file location, return
NoUri ==
    /\ pc = "start"
    /\ getCommandUri(uri, editor) = None
    /\ pc' = "returned"
    /\ UNCHANGED <<uri, editor, args, gitUri, path, stash, offered, pick, ref, sha,
                   files, renamedUri, renamedTitle, calls, completed, thrown>>

\* lines 30-33: the location is resolved and GitUri.fromUri is awaited
Execute ==
    /\ pc = "start"
    /\ getCommandUri(uri, editor) # None
    /\ uri' = getCommandUri(uri, editor)
    /\ calls' = Append(calls, [fn |-> "GitUri.fromUri", uri |-> Get(uri')])
    /\ pc' = "awaitGitUri"
    /\ UNCHANGED <<editor, args, gitUri, path, stash, offered, pick, ref, sha,
                   files, renamedUri, renamedTitle, completed, thrown>>

\* mutant of NoRepository: the return is taken without the warning
NoRepository_Silent ==
    /\ pc = "awaitGitUri"
    /\ GitUriFromUri(Get(uri)).repoPath = None
    /\ gitUri' = Some(GitUriFromUri(Get(uri)))
    /\ completed' = Append(completed, "GitUri.fromUri")
    /\ pc' = "returned"
    /\ UNCHANGED <<uri, editor, args, path, stash, offered, pick, ref, sha,
                   files, renamedUri, renamedTitle, calls, thrown>>

\* lines 33-38: no repository owns the location: warn and return
NoRepository ==
    /\ pc = "awaitGitUri"
    /\ GitUriFromUri(Get(uri)).repoPath = None
    /\ gitUri' = Some(GitUriFromUri(Get(uri)))
    /\ completed' = Append(completed, "GitUri.fromUri")
    /\ calls' = Append(calls, [fn |-> "showNoRepositoryWarningMessage",
                               message |-> "Unable to open file comparison"])
    /\ pc' = "returned"
    /\ UNCHANGED <<uri, editor, args, path, stash, offered, pick, ref, sha,
                   files, renamedUri, renamedTitle, thrown>>

\* lines 33-53: stash mode: the stash listing is requested and the stash picker opened
OpenStashPicker ==
    /\ pc = "awaitGitUri"
    /\ LET g == GitUriFromUri(Get(uri))
           a == NormalizeArgs(args, editor)
       IN  /\ g.repoPath # None
           /\ StashMode(a)
           /\ gitUri' = Some(g)
           /\ args' = Some(a)
           /\ path' = Some(getRelativePath(g, Get(g.repoPath)))
           /\ calls' = calls \o
                <<[fn |-> "getStash", repoPath |-> Get(g.repoPath)],
                  [fn |-> "showStashPicker",
                   title |-> PickerTitle(StashTitle, g),
                   placeholder |-> "Choose a stash to compare with",
                   empty |-> "No stashes with '" \o basename(g.fsPath) \o "' found"]>>
    /\ completed' = Append(completed, "GitUri.fromUri")
    /\ pc' = "awaitStash"
    /\ UNCHANGED <<uri, editor, stash, offered, pick, ref, sha,
                   files, renamedUri, renamedTitle, thrown>>

\* lines 33-45, 66-74: reference mode: the reference picker is opened
OpenReferencePicker ==
    /\ pc = "awaitGitUri"
    /\ LET g == GitUriFromUri(Get(uri))
           a == NormalizeArgs(args, editor)
       IN  /\ g.repoPath # None
           /\ ~StashMode(a)
           /\ gitUri' = Some(g)
           /\ args' = Some(a)
           /\ path' = Some(getRelativePath(g, Get(g.repoPath)))
           /\ calls' = Append(calls,
                [fn |-> "showReferencePicker",
                 repoPath |-> Get(g.repoPath),
                 title |-> PickerTitle(ReferenceTitle, g),
                 placeholder |-> "Choose a reference (branch, tag, etc) to compare with",
                 allowRevisions |-> TRUE])
    /\ completed' = Append(completed, "GitUri.fromUri")
    /\ pc' = "awaitPick"
    /\ UNCHANGED <<uri, editor, stash, offered, pick, ref, sha,
                   files, renamedUri, renamedTitle, thrown>>

\* the picker awaited at lines 51 and 67
Picker == IF StashMode(Get(args)) THEN "showStashPicker" ELSE "showReferencePicker"

\* line 52, inside the stash picker: the listing arrives (undefined or empty when
\* there is no stash data) and the picker keeps the entries the filter accepts
StashListed ==
    /\ pc = "awaitStash"
    /\ \E listing \in StashListings :
        /\ stash' = listing
        /\ offered' = IF listing = None THEN {}
                      ELSE {i \in 1..Len(Get(listing)) :
                                StashFilter(Get(listing)[i], Get(path))}
    /\ completed' = Append(completed, "getStash")
    /\ pc' = "awaitPick"
    /\ UNCHANGED <<uri, editor, args, gitUri, path, pick, ref, sha,
                   files, renamedUri, renamedTitle, calls, thrown>>

\* line 52: the stash listing rejects; nothing catches it
StashListFails ==
    /\ pc = "awaitStash"
    /\ thrown' = Some("getStash")
    /\ pc' = "threw"
    /\ UNCHANGED <<uri, editor, args, gitUri, path, stash, offered, pick, ref, sha,
                   files, renamedUri, renamedTitle, calls, completed>>

\* lines 81-89 after a pick: ref is set, the rename status is requested.  Every
\* pick carries a ref (GitReference.ref is a string), so the return of line 81
\* is never taken.
Selected(pk, r, s) ==
    /\ pick' = Some(pk)
    /\ ref' = Some(r)
    /\ sha' = Some(s)
    /\ completed' = Append(completed, Picker)
    /\ calls' = Append(calls, DiffStatusQuery(Get(gitUri), r))
    /\ pc' = "awaitDiffStatus"
    /\ stash' = None
    /\ offered' = {}
    /\ UNCHANGED <<uri, editor, args, gitUri, path,
                   files, renamedUri, renamedTitle, thrown>>

\* mutant of PickStash: a stash is compared without the rename check
PickStash_NoRenameCheck ==
    /\ pc = "awaitPick"
    /\ StashMode(Get(args))
    /\ \E i \in offered :
        LET pk == Get(stash)[i]
        IN  /\ pick' = Some(pk)
            /\ ref' = Some(pk.ref)
            /\ sha' = Some(pk.ref)
            /\ calls' = Append(calls,
                    [fn |-> "executeCommand", command |-> "gitlens.diffWith",
                     args |-> DiffWithArgs(Get(gitUri), pk.ref, pk.ref,
                                           None, None, Get(args))])
    /\ completed' = Append(completed, Picker)
    /\ pc' = "awaitDiffWith"
    /\ stash' = None
    /\ offered' = {}
    /\ UNCHANGED <<uri, editor, args, gitUri, path,
                   files, renamedUri, renamedTitle, thrown>>

\* lines 61-64, 81-89: the user picks one of the offered stash entries
PickStash ==
    /\ pc = "awaitPick"
    /\ StashMode(Get(args))
    /\ \E i \in offered :
        LET pk == Get(stash)[i]
        IN  Selected(pk, pk.ref, pk.ref)

\* lines 75-89: the user picks a reference
PickReference ==
    /\ pc = "awaitPick"
    /\ ~StashMode(Get(args))
    /\ \E pk \in ReferencePicks :
        Selected(pk, pk.ref, ResolveSha(pk, pk.ref))

\* mutant of PickCancelled: no selection is reported as a failed comparison
PickCancelled_Warns ==
    /\ pc = "awaitPick"
    /\ completed' = Append(completed, Picker)
    /\ calls' = Append(calls, [fn |-> "showNoRepositoryWarningMessage",
                               message |-> "Unable to open file comparison"])
    /\ pc' = "returned"
    /\ stash' = None
    /\ offered' = {}
    /\ UNCHANGED <<uri, editor, args, gitUri, path, pick, ref, sha,
                   files, renamedUri, renamedTitle, thrown>>

\* lines 61, 75: the picker answers with no selection: return
PickCancelled ==
    /\ pc = "awaitPick"
    /\ completed' = Append(completed, Picker)
    /\ pc' = "returned"
    /\ stash' = None
    /\ offered' = {}
    /\ UNCHANGED <<uri, editor, args, gitUri, path, pick, ref, sha,
                   files, renamedUri, renamedTitle, calls, thrown>>

\* lines 51, 67: the picker rejects; nothing catches it
PickerFails ==
    /\ pc = "awaitPick"
    /\ thrown' = Some(Picker)
    /\ pc' = "threw"
    /\ stash' = None
    /\ offered' = {}
    /\ UNCHANGED <<uri, editor, args, gitUri, path, pick, ref, sha,
                   files, renamedUri, renamedTitle, calls, completed>>

\* lines 87-111: the rename status arrives, the request is assembled and handed
\* to 'gitlens.diffWith'
DiffStatusReturns ==
    /\ pc = "awaitDiffStatus"
    /\ \E fl \in DiffStatusResults :
        /\ files' = fl
        /\ renamedUri' = RenamedUri(fl, Get(path), Get(gitUri))
        /\ renamedTitle' = RenamedTitle(fl, Get(path), Get(ref))
    /\ completed' = Append(completed, "getDiffStatus")
    /\ calls' = Append(calls,
            [fn |-> "executeCommand", command |-> "gitlens.diffWith",
             args |-> DiffWithArgs(Get(gitUri), Get(sha), Get(ref),
                                   renamedUri', renamedTitle', Get(args))])
    /\ pc' = "awaitDiffWith"
    /\ UNCHANGED <<uri, editor, args, gitUri, path, stash, offered, pick, ref, sha,
                   thrown>>

\* line 87: the rename-status query rejects; nothing catches it
DiffStatusFails ==
    /\ pc = "awaitDiffStatus"
    /\ thrown' = Some("getDiffStatus")
    /\ pc' = "threw"
    /\ UNCHANGED <<uri, editor, args, gitUri, path, stash, offered, pick, ref, sha,
                   files, renamedUri, renamedTitle, calls, completed>>

\* lines 98-112: the diff command completes and execute returns
DiffWithReturns ==
    /\ pc = "awaitDiffWith"
    /\ completed' = Append(completed, "executeCommand")
    /\ pc' = "returned"
    /\ UNCHANGED <<uri, editor, args, gitUri, path, stash, offered, pick, ref, sha,
                   files, renamedUri, renamedTitle, calls, thrown>>

\* line 98: the diff command rejects; nothing catches it
DiffWithFails ==
    /\ pc = "awaitDiffWith"
    /\ thrown' = Some("executeCommand")
    /\ pc' = "threw"
    /\ UNCHANGED <<uri, editor, args, gitUri, path, stash, offered, pick, ref, sha,
                   files, renamedUri, renamedTitle, calls, completed>>

\* line 33: GitUri.fromUri rejects; nothing catches it
FromUriFails ==
    /\ pc = "awaitGitUri"
    /\ thrown' = Some("GitUri.fromUri")
    /\ pc' = "threw"
    /\ UNCHANGED <<uri, editor, args, gitUri, path, stash, offered, pick, ref, sha,
                   files, renamedUri, renamedTitle, calls, completed>>

Next ==
    \/ NoUri
    \/ Execute
    \/ FromUriFails
    \/ NoRepository
    \/ OpenStashPicker
    \/ OpenReferencePicker
    \/ StashListed
    \/ StashListFails
    \/ PickStash
    \/ PickReference
    \/ PickCancelled
    \/ PickerFails
    \/ DiffStatusReturns
    \/ DiffStatusFails
    \/ DiffWithReturns
    \/ DiffWithFails

Spec == Init /\ [][Next]_vars

-----------------------------------------------------------------------------
(* What the invocation did, read off the log of calls *)

CallsTo(f) == SelectSeq(calls, LAMBDA c : c.fn = f)

Dispatches == CallsTo("executeCommand")

Queries == CallsTo("getDiffStatus")

Warnings == CallsTo("showNoRepositoryWarningMessage")

PickerCalls == SelectSeq(calls, LAMBDA c : c.fn \in {"showStashPicker", "showReferencePicker"})

Dispatched == Dispatches # <<>>

\* the request handed to the diff command
Request == Dispatches[1].args

Count(sq, x) == Cardinality({i \in 1..Len(sq) : sq[i] = x})

\* the rename-status entries for the target path, by position
Matches == IF files = None THEN {}
           ELSE {i \in 1..Len(Get(files)) : Get(files)[i].path = Get(path)}

FirstMatch == Get(files)[CHOOSE i \in Matches : \A j \in Matches : i <= j]

TitleOf(p) == basename(p) \o " (" \o shortenRevision(Get(ref)) \o ")"

CurrentSide ==
    /\ Request.lhs.uri = Get(gitUri).fsPath
    /\ Request.lhs.title = TitleOf(Get(gitUri).fsPath)

OriginalSide(p0) ==
    /\ Request.lhs.uri = Get(Get(gitUri).repoPath) \o "/" \o p0
    /\ Request.lhs.title = TitleOf(p0)

-----------------------------------------------------------------------------
(* C1 *)

\* C1 as stated: in every dispatched request, if the rename-status result holds
\* an entry for the current path that carries an original path, the left side is
\* the location and base name of such an original path; if it holds none, the
\* left side is the current location and base name.
C1_AnyRenameEntryPropagates ==
    Dispatched =>
        LET renamed == {i \in Matches : Get(files)[i].originalPath # None}
        IN  IF renamed # {}
            THEN \E i \in renamed : OriginalSide(Get(Get(files)[i].originalPath))
            ELSE CurrentSide

\* C1 amended: in every dispatched request, if the first entry of the
\* rename-status result for the current path carries an original path P0, the
\* left side is the location of P0 in the same repository root, titled with
\* basename(P0); if the result is absent, has no entry for the current path, or
\* its first such entry carries no original path, the left side is the current
\* location, titled with the current base name.
C1_FirstRenameEntryPropagates ==
    Dispatched =>
        IF Matches # {} /\ FirstMatch.originalPath # None
        THEN OriginalSide(Get(FirstMatch.originalPath))
        ELSE CurrentSide

\* a request whose left side is the original path of a renamed file
C1_Witness ==
    /\ Dispatched
    /\ Matches # {}
    /\ FirstMatch.originalPath = Some("old/b.ts")
    /\ Get(path) = "a.ts"
    /\ Request.lhs.uri = "/repo/old/b.ts"
    /\ Request.lhs.title = "b.ts (feature)"

-----------------------------------------------------------------------------
(* C2 *)

\* C2: in reference mode a pick that is a branch flagged remote with name B is
\* dispatched with lhs.sha = "remotes/" + B and a title ending in the shortened
\* B, unprefixed; every other pick, of either mode, is dispatched with lhs.sha
\* equal to the picked reference.
C2_RemoteBranchResolution ==
    Dispatched =>
        LET pk == Get(pick)
        IN  IF ~StashMode(Get(args)) /\ pk.refType = "branch" /\ pk.remote
            THEN /\ Request.lhs.sha = "remotes/" \o pk.ref
                 /\ EndsWith(Request.lhs.title, " (" \o shortenRevision(pk.ref) \o ")")
            ELSE Request.lhs.sha = pk.ref

\* a remote branch was picked and dispatched
C2_Witness ==
    /\ Dispatched
    /\ ~StashMode(Get(args))
    /\ Get(pick).refType = "branch"
    /\ Get(pick).remote
    /\ Request.lhs.sha = "remotes/origin/main"
    /\ Request.lhs.title = "a.ts (origin/main)"

-----------------------------------------------------------------------------
(* C3 *)

\* the picker has answered with no selection
NoSelection ==
    /\ completed # <<>>
    /\ completed[Len(completed)] \in {"showStashPicker", "showReferencePicker"}
    /\ pick = None

\* C3: in both modes, once the picker has answered with no selection the
\* invocation has returned normally: nothing is dispatched, nothing is thrown,
\* no warning is shown and no rename-status query is issued.
C3_CancellationIsSilent ==
    NoSelection =>
        /\ pc = "returned"
        /\ thrown = None
        /\ Dispatches = <<>>
        /\ Warnings = <<>>
        /\ Queries = <<>>

\* the stash picker, its listing received, was cancelled
C3_Witness ==
    /\ NoSelection
    /\ StashMode(Get(args))
    /\ completed = <<"GitUri.fromUri", "getStash", "showStashPicker">>
    /\ pc = "returned"

-----------------------------------------------------------------------------
(* C4 *)

\* C4: with no file location the invocation returns having called nothing; with
\* a location that no repository owns it has returned after exactly one warning
\* 'Unable to open file comparison', with one repository lookup and no picker,
\* stash listing, rename-status query or dispatch.
C4_FailFastExits ==
    /\ (pc # "start" /\ getCommandUri(uri, editor) = None) =>
            /\ pc = "returned"
            /\ calls = <<>>
            /\ thrown = None
    /\ (gitUri # None /\ Get(gitUri).repoPath = None) =>
            /\ pc = "returned"
            /\ thrown = None
            /\ calls = <<[fn |-> "GitUri.fromUri", uri |-> Get(uri)],
                         [fn |-> "showNoRepositoryWarningMessage",
                          message |-> "Unable to open file comparison"]>>

\* a file outside every repository was warned about
C4_Witness ==
    /\ gitUri # None
    /\ Get(gitUri).repoPath = None
    /\ Get(uri) = "/tmp/a.ts"
    /\ Len(Warnings) = 1
    /\ pc = "returned"

-----------------------------------------------------------------------------
(* C5 *)

\* the stash picker has the listing and awaits the user
StashOffered == pc = "awaitPick" /\ StashMode(Get(args)) /\ stash # None

\* C5: the stash picker offers an entry whose file list is unknown, whatever
\* the target path; it offers an entry with a known file list (an empty one
\* included) exactly when some file of the list has the target path as its
\* current or as its original path.
C5_StashFilterPermissive ==
    StashOffered =>
        \A i \in 1..Len(Get(stash)) :
            LET c == Get(stash)[i]
            IN  IF c.files = None THEN i \in offered
                ELSE i \in offered <=>
                        \E f \in {Get(c.files)[k] : k \in 1..Len(Get(c.files))} :
                            \/ f.path = Get(path)
                            \/ f.originalPath = Some(Get(path))

\* an entry with an unknown file list is offered
C5_Witness ==
    /\ StashOffered
    /\ Len(Get(stash)) >= 1
    /\ Get(stash)[1].files = None
    /\ 1 \in offered

-----------------------------------------------------------------------------
(* C6 *)

\* C6: every rename-status query is issued between HEAD and the resolved
\* revision, the identifier dispatched as lhs.sha ("remotes/" + name for a
\* remote branch), with the rename and copy filters only.
C6_QueryUsesResolvedRevision ==
    \A i \in 1..Len(Queries) :
        /\ Queries[i].ref1 = "HEAD"
        /\ Queries[i].ref2 = Get(sha)
        /\ Queries[i].filters = <<"R", "C">>

-----------------------------------------------------------------------------
(* C7 *)

\* C7: in both modes the picker title is its fixed prefix followed by the file
\* name, and is never longer than the picker's maximum title length.
C7_TitleWithinBudget ==
    \A i \in 1..Len(PickerCalls) :
        LET c == PickerCalls[i]
            prefix == IF c.fn = "showStashPicker" THEN StashTitle ELSE ReferenceTitle
        IN  /\ StartsWith(c.title, prefix)
            /\ Len(c.title) <= quickPickTitleMaxChars

\* a file name too long for the title was cut to fill the budget exactly
C7_Witness ==
    /\ PickerCalls # <<>>
    /\ Len(basename(Get(gitUri).fsPath)) = 64
    /\ Len(PickerCalls[1].title) = quickPickTitleMaxChars

-----------------------------------------------------------------------------
(* C8 *)

\* C8: in every dispatched request rhs.sha is the empty string, rhs.uri is the
\* current file location (never the original one of a rename), and repoPath is
\* the root of the repository owning the current file.
C8_RightSideIsWorkingTree ==
    Dispatched =>
        /\ Request.rhs.sha = ""
        /\ Request.rhs.uri = Get(uri)
        /\ Some(Request.repoPath) = RepoPathOf(Get(uri))

\* a request for a renamed file: the two sides differ
C8_Witness ==
    /\ Dispatched
    /\ renamedUri # None
    /\ Request.lhs.uri # Get(uri)
    /\ Request.rhs.uri = Get(uri)
    /\ StashMode(Get(args))

-----------------------------------------------------------------------------
(* C9 *)

FnNames == [i \in 1..Len(calls) |-> calls[i].fn]

IsPrefix(sq, full) == Len(sq) <= Len(full) /\ sq = SubSeq(full, 1, Len(sq))

\* C9: the calls of an invocation follow the order repository lookup, picker,
\* rename-status query, dispatch; the request is dispatched at most once, and
\* only after a selection was made and exactly one rename-status query
\* returned, in stash mode as in reference mode; when the stash listing, the
\* picker or the rename-status query rejects, the invocation ends by throwing
\* and nothing is dispatched.
C9_PipelineOrderSingleDispatch ==
    /\ \/ IsPrefix(FnNames, <<"GitUri.fromUri", "getStash", "showStashPicker",
                              "getDiffStatus", "executeCommand">>)
       \/ IsPrefix(FnNames, <<"GitUri.fromUri", "showReferencePicker",
                              "getDiffStatus", "executeCommand">>)
       \/ FnNames = <<"GitUri.fromUri", "showNoRepositoryWarningMessage">>
    /\ Len(Dispatches) <= 1
    /\ Dispatched =>
            /\ pick # None
            /\ ref # None
            /\ Count(completed, "GitUri.fromUri") = 1
            /\ Count(completed, "showStashPicker")
                 + Count(completed, "showReferencePicker") = 1
            /\ Count(completed, "getDiffStatus") = 1
            /\ Len(Queries) = 1
    /\ thrown # None => pc = "threw"
    /\ thrown \in {Some("getStash"), Some("showStashPicker"),
                   Some("showReferencePicker"), Some("getDiffStatus")} =>
            Dispatches = <<>>

\* a stash was picked and dispatched after its rename check
C9_Witness ==
    /\ Dispatched
    /\ StashMode(Get(args))
    /\ completed = <<"GitUri.fromUri", "getStash", "showStashPicker",
                     "getDiffStatus", "executeCommand">>
    /\ pc = "returned"

-----------------------------------------------------------------------------
(* C10 *)

\* the rename-status query has answered
RenameChecked == Count(completed, "getDiffStatus") = 1

\* C10: once the rename status has answered, the first entry in list order
\* whose path is the target path decides alone: the file counts as renamed
\* from that entry's original path when it carries one, and as not renamed
\* when it carries none or when no entry has the target path; later entries
\* for the target path and entries for other paths change nothing.
C10_FirstMatchDecides ==
    RenameChecked =>
        IF Matches = {} \/ FirstMatch.originalPath = None
        THEN renamedUri = None /\ renamedTitle = None
        ELSE LET p0 == Get(FirstMatch.originalPath)
             IN  /\ renamedUri = Some(Get(Get(gitUri).repoPath) \o "/" \o p0)
                 /\ renamedTitle = Some(TitleOf(p0))

\* two entries for the target path: the first carries no original path, the
\* second does, and the file counts as not renamed
C10_Witness ==
    /\ RenameChecked
    /\ Cardinality(Matches) >= 2
    /\ FirstMatch.originalPath = None
    /\ \E i \in Matches : Get(files)[i].originalPath # None
    /\ renamedUri = None

====
